---- MODULE Spec2Model ----
(***************************************************************************)
(* SkyDelay Intelligence: the cascade delay calculator                     *)
(* (src/processing/cascade_calculator.py) over the raw_bts_flights table   *)
(* that the BTS loader (src/ingestion/bts_historical_loader.py) appends    *)
(* to, its callers in the MCP server (src/mcp_server/server.py) and the    *)
(* dashboard (src/dashboard/app.py); the ranking tools of the MCP server,  *)
(* the pipeline health agent (src/agents/pipeline_health_agent.py) and the *)
(* polling loops of the producers (src/ingestion/*_producer.py).           *)
(*                                                                         *)
(* Encoding.  A table is a bag of rows (a SQL table has no row order and   *)
(* may hold equal rows).  SQL NULL of a numeric column is Null.  Python    *)
(* floats are exact decimals: a trigger delay is counted in tenths of a    *)
(* minute, an unrounded cost in cents and thousandths of a dollar, a cost  *)
(* rounded to 2 decimals in cents.  On the tenths grid every unrounded     *)
(* cost is an even number of thousandths: round(x, 2) never meets a tie.   *)
(***************************************************************************)
EXTENDS Integers, Sequences, FiniteSets, Bags, TLC

\* ---------------------------------------------------------------- bounds
MaxLoads == 3
\* files in the table the MCP tool and the two sessions read
MaxSnapshotFiles == 2
\* the largest value of a scheduled-time column converted
MaxClock == 2359
\* rows of the largest table a ranking tool reads
MaxRows == 52
\* tables that are not in order when the health agent starts
MaxSick == 1
\* cycles of a producer's polling loop
MaxPolls == 3
\* records in one API response
MaxItems == 2

\* ------------------------------------------------------- program constants
COST_PER_MINUTE_PASSENGER == 74
COST_PER_MINUTE_AIRLINE_OPS == 6848
AVG_LOAD_FACTOR == 87
AVG_SEATS_DOMESTIC == 160
LateArrivalMinutes == 15
MinGap == 20
MaxDestinations == 20
DefaultTurnaround == 45
MaxToolDestinations == 15
MinTopN == 1
MaxTopN == 50
MaxAttempts == 2
Null == -1

\* ------------------------------------------------------------- helpers
Min(a, b) == IF a <= b THEN a ELSE b

RECURSIVE SumOver(_, _)
SumOver(S, f) ==
    IF S = {} THEN 0
    ELSE LET x == CHOOSE y \in S : TRUE
         IN  f[x] + SumOver(S \ {x}, f)

\* ---------------------------------------------------- rows of the table
Hub == "ORD"
Day == "2025-10-15"
NextDay == "2025-10-16"

Row(date, airline, origin, dest, dep, arr, arrdelay, cancelled) ==
    [flightdate |-> date, airline |-> airline, origin |-> origin, dest |-> dest,
     crsdeptime |-> dep, crsarrtime |-> arr, arrdelayminutes |-> arrdelay,
     cancelled |-> cancelled]

Inbound(airline, arr, arrdelay) == Row(Day, airline, "DEN", Hub, 800, arr, arrdelay, 0)
Outbound(airline, dest, dep, cancelled) == Row(Day, airline, Hub, dest, dep, dep + 200, 0, cancelled)

\* The CSV files the loader may be given.
\* Delayed arrivals at the hub, scheduled in at 10:00:
LateAA100 == SetToBag({ Inbound("AA", 1000, 100) })
LateAA60 == SetToBag({ Inbound("AA", 1000, 60) })
LateUA100 == SetToBag({ Inbound("UA", 1000, 100) })
\* a positive delay below the 15 minutes of delayed_arrivals
LateAA10 == SetToBag({ Inbound("AA", 1000, 10) })
\* records that lack a field: a delayed arrival without a scheduled arrival
\* time, an arrival without a delay, a departure without a scheduled time
MissingFields ==
    SetToBag({ Inbound("AA", Null, 100),
               Inbound("AA", 1000, Null),
               Row(Day, "AA", Hub, "DEN", Null, 1230, 0, 0) })
\* arrivals that are not delayed, have no delay, or are of the next day
NotLate ==
    SetToBag({ Inbound("AA", 1000, 0),
               Inbound("AA", 1000, Null),
               Row(NextDay, "AA", "DEN", Hub, 800, 1000, 100, 0) })
\* departures from the hub: 20, 60 and 40 minutes after 10:00
DepDEN1020 == SetToBag({ Outbound("AA", "DEN", 1020, 0) })
DepLAX1100 == SetToBag({ Outbound("AA", "LAX", 1100, 0) })
DepUA1040 == SetToBag({ Outbound("UA", "LAX", 1040, 0) })
\* departures no arrival of 10:00 can delay: 19 minutes after, before (at 00:30),
\* at 10:00 itself, cancelled, without a scheduled time, of the next day;
\* and a late arrival at 23:50, 40 minutes of the clock before the 00:30
NoMatchDeps ==
    SetToBag({ Outbound("AA", "LAX", 1019, 0),
               Outbound("AA", "DEN", 30, 0),
               Outbound("AA", "LAX", 1000, 0),
               Inbound("AA", 2350, 100),
               Outbound("AA", "LAX", 1030, 1),
               Row(Day, "AA", Hub, "DEN", Null, 1230, 0, 0),
               Row(NextDay, "AA", Hub, "DEN", 1030, 1230, 0, 0) })

\* A file with departures to more destinations than the result lists:
\* destination k of WideDests has WideCopies(k) departures at 10:30, the
\* 19th, 20th and 21st as many as each other.
WideDests ==
    << "ATL", "BOS", "BWI", "CLT", "DCA", "DFW", "DTW", "EWR", "FLL", "IAD",
       "IAH", "JFK", "LAS", "LGA", "MCO", "MIA", "MSP", "PHL", "PHX", "SAN",
       "SEA", "SFO" >>

WideCopies(k) == IF k <= 18 THEN 23 - k ELSE IF k <= 21 THEN 4 ELSE 2

WideFile ==
    LET rows == { Outbound("AA", WideDests[k], 1030, 0) : k \in 1..Len(WideDests) }
    IN  [r \in rows |-> WideCopies(CHOOSE k \in 1..Len(WideDests) : WideDests[k] = r.dest)]

Files ==
    { LateAA100, LateAA60, LateUA100, LateAA10, MissingFields, NotLate,
      DepDEN1020, DepLAX1100, DepUA1040, NoMatchDeps, WideFile }

\* ------------------------------------------------------------ arguments
\* delay_minutes in tenths of a minute: 0.1, 15.5, 60.0
Delays == { 1, 155, 600 }
Turnarounds == { 25, 45 }

Args == [airport : {Hub}, date : {Day}, delay : Delays, turnaround : Turnarounds]

\* what a dashboard session passes: the slider at 15 or at 90 minutes, the
\* turnaround left to its default
PeerArgs ==
    [airport : {Hub}, date : {Day}, delay : { 150, 900 },
     turnaround : {DefaultTurnaround}]

\* what a client of the MCP tool sends: the hub or an airport the table
\* has no row of, in lower case; 15 or 60 minutes; a date or none
Dates == { Day, NextDay }
ToolInputs == [airport_code : { "ord", "zzz" }, delay_minutes : { 15, 60 },
               date : { "", Day }]

\* --------------------------------------------- cascade_calculator.py
\* hhmm_to_minutes with the minutes taken modulo 60
hhmm_minutes_mod_sixty(v) ==
    IF v = Null THEN Null ELSE (v \div 100) * 60 + (v % 60)

\* hhmm_to_minutes with a missing time read as 0
hhmm_null_as_midnight(v) ==
    IF v = Null THEN 0 ELSE (v \div 100) * 60 + (v % 100)

hhmm_to_minutes(v) ==
    IF v = Null THEN Null ELSE (v \div 100) * 60 + (v % 100)

\* DirectCount without the filter on the airport
DirectCountAnyAirport(tbl, airport, date) ==
    LET hit == { r \in BagToSet(tbl) :
                   /\ r.flightdate = date
                   /\ r.arrdelayminutes # Null
                   /\ r.arrdelayminutes > 0 }
    IN  SumOver(hit, [r \in hit |-> CopiesIn(r, tbl)])

\* DirectCount with the 15-minute threshold of the cascade query
DirectCountLate(tbl, airport, date) ==
    LET hit == { r \in BagToSet(tbl) :
                   /\ r.dest = airport
                   /\ r.flightdate = date
                   /\ r.arrdelayminutes # Null
                   /\ r.arrdelayminutes >= LateArrivalMinutes }
    IN  SumOver(hit, [r \in hit |-> CopiesIn(r, tbl)])

\* DirectCount with >= 0 for > 0
DirectCountNonNegative(tbl, airport, date) ==
    LET hit == { r \in BagToSet(tbl) :
                   /\ r.dest = airport
                   /\ r.flightdate = date
                   /\ r.arrdelayminutes # Null
                   /\ r.arrdelayminutes >= 0 }
    IN  SumOver(hit, [r \in hit |-> CopiesIn(r, tbl)])

\* lines 76-83: the count of the first query
DirectCount(tbl, airport, date) ==
    LET hit == { r \in BagToSet(tbl) :
                   /\ r.dest = airport
                   /\ r.flightdate = date
                   /\ r.arrdelayminutes # Null
                   /\ r.arrdelayminutes > 0 }
    IN  SumOver(hit, [r \in hit |-> CopiesIn(r, tbl)])

\* delayed_arrivals keeping only the arrivals more than an hour late
delayed_arrivals_over_an_hour(tbl, airport, date) ==
    { r \in BagToSet(tbl) :
        /\ r.dest = airport
        /\ r.flightdate = date
        /\ r.arrdelayminutes # Null
        /\ r.arrdelayminutes > 60 }

\* lines 91-102
delayed_arrivals(tbl, airport, date) ==
    { r \in BagToSet(tbl) :
        /\ r.dest = airport
        /\ r.flightdate = date
        /\ r.arrdelayminutes # Null
        /\ r.arrdelayminutes >= LateArrivalMinutes }

\* lines 103-115
outbound_flights(tbl, airport, date) ==
    { r \in BagToSet(tbl) :
        /\ r.origin = airport
        /\ r.flightdate = date
        /\ r.cancelled = 0
        /\ r.crsdeptime # Null }

\* int(delay_minutes) of line 128, for a positive delay
IntPart(delay) == delay \div 10

\* MaxGap with the delay subtracted
MaxGapNarrowed(delay, turnaround) == turnaround - IntPart(delay)

\* line 128: the upper end of the BETWEEN
MaxGap(delay, turnaround) == turnaround + IntPart(delay)

\* MatchWhere with a departure before the arrival taken as of the next day
MatchWhereOvernight(o, a, delay, turnaround) ==
    LET dep_minutes == hhmm_to_minutes(o.crsdeptime)
        arr_minutes == hhmm_to_minutes(a.crsarrtime)
        turnaround_gap == IF dep_minutes > arr_minutes
                          THEN dep_minutes - arr_minutes
                          ELSE dep_minutes - arr_minutes + 1440
    IN  /\ dep_minutes # Null
        /\ arr_minutes # Null
        /\ turnaround_gap >= MinGap
        /\ turnaround_gap <= MaxGap(delay, turnaround)
        /\ a.arrdelayminutes > turnaround_gap

\* MatchWhere with >= for > in the last comparison
MatchWhereDelayAtLeastGap(o, a, delay, turnaround) ==
    LET dep_minutes == hhmm_to_minutes(o.crsdeptime)
        arr_minutes == hhmm_to_minutes(a.crsarrtime)
        turnaround_gap == dep_minutes - arr_minutes
    IN  /\ dep_minutes # Null
        /\ arr_minutes # Null
        /\ dep_minutes > arr_minutes
        /\ turnaround_gap >= MinGap
        /\ turnaround_gap <= turnaround + IntPart(delay)
        /\ a.arrdelayminutes >= turnaround_gap

\* MatchWhere with the window starting at min_turnaround
MatchWhereFromTurnaround(o, a, delay, turnaround) ==
    LET dep_minutes == hhmm_to_minutes(o.crsdeptime)
        arr_minutes == hhmm_to_minutes(a.crsarrtime)
        turnaround_gap == dep_minutes - arr_minutes
    IN  /\ dep_minutes # Null
        /\ arr_minutes # Null
        /\ dep_minutes > arr_minutes
        /\ turnaround_gap >= turnaround
        /\ turnaround_gap <= turnaround + IntPart(delay)
        /\ a.arrdelayminutes > turnaround_gap

\* lines 127-129: the WHERE of the join; a comparison with NULL is not true
MatchWhere(o, a, delay, turnaround) ==
    LET dep_minutes == hhmm_to_minutes(o.crsdeptime)
        arr_minutes == hhmm_to_minutes(a.crsarrtime)
        turnaround_gap == dep_minutes - arr_minutes
    IN  /\ dep_minutes # Null
        /\ arr_minutes # Null
        /\ dep_minutes > arr_minutes
        /\ turnaround_gap >= MinGap
        /\ turnaround_gap <= MaxGap(delay, turnaround)
        /\ a.arrdelayminutes > turnaround_gap

\* cascade_matches with every departure matched to one arrival at most
cascade_matches_exclusive(tbl, a) ==
    LET m == { p \in outbound_flights(tbl, a.airport, a.date)
                       \X delayed_arrivals(tbl, a.airport, a.date) :
                 /\ p[1].airline = p[2].airline
                 /\ MatchWhere(p[1], p[2], a.delay, a.turnaround) }
    IN  { p \in m : p[2] = CHOOSE i \in delayed_arrivals(tbl, a.airport, a.date) :
                                << p[1], i >> \in m }

\* lines 116-130: the distinct <<outbound, inbound>> row pairs of the join
cascade_matches(tbl, a) ==
    { p \in outbound_flights(tbl, a.airport, a.date) \X delayed_arrivals(tbl, a.airport, a.date) :
        /\ p[1].airline = p[2].airline
        /\ MatchWhere(p[1], p[2], a.delay, a.turnaround) }

\* the number of joined rows a pair of distinct rows stands for
PairCopies(tbl, p) == CopiesIn(p[1], tbl) * CopiesIn(p[2], tbl)

\* lines 131-137: GROUP BY outbound_dest, count(*): the rows
\* <<outbound_dest, affected_flights>> of the result
cascade_groups(tbl, a) ==
    UNION { { << d, LET g == { p \in m : p[1].dest = d }
                    IN  SumOver(g, [p \in g |-> PairCopies(tbl, p)]) >>
              : d \in { p[1].dest : p \in m } }
            : m \in { { p : p \in cascade_matches(tbl, a) } } }

\* line 138: ORDER BY affected_flights DESC; the order of the rows with
\* equal counts is whatever the engine produces
RECURSIVE OrderByCountDesc(_)
OrderByCountDesc(rows) ==
    IF rows = {} THEN { << >> }
    ELSE LET top == { r \in rows : \A q \in rows : r[2] >= q[2] }
         IN  UNION { { <<r>> \o t : t \in OrderByCountDesc(rows \ {r}) } : r \in top }

\* n_cascade_of over the rows that will be listed only
RECURSIVE n_cascade_of_listed(_)
n_cascade_of_listed(cascade_df) ==
    IF cascade_df = << >> THEN 0
    ELSE Head(cascade_df)[2]
           + n_cascade_of_listed(SubSeq(cascade_df, 2, Min(Len(cascade_df), MaxDestinations)))

\* line 143: cascade_df["affected_flights"].sum(), 0 for an empty frame
RECURSIVE n_cascade_of(_)
n_cascade_of(cascade_df) ==
    IF cascade_df = << >> THEN 0
    ELSE Head(cascade_df)[2] + n_cascade_of(Tail(cascade_df))

\* line 144: cascade_df["outbound_dest"].tolist()
affected_dests_of(cascade_df) == [i \in 1..Len(cascade_df) |-> cascade_df[i][1]]

\* line 148: int(total_flights * AVG_SEATS_DOMESTIC * AVG_LOAD_FACTOR)
total_pax_of(total_flights) ==
    (total_flights * AVG_SEATS_DOMESTIC * AVG_LOAD_FACTOR) \div 100

\* avg_delay_of with the trigger delay shared out over the flights
avg_delay_per_flight(total_flights, delay) ==
    IF total_flights > 0 THEN delay \div total_flights ELSE 0

\* line 151
avg_delay_of(total_flights, delay) == IF total_flights > 0 THEN delay ELSE 0

\* An unrounded amount of money: cents and thousandths of a dollar (0..9).
\* x * rate / 1000 dollars, for a rate in cents and x in tenths
Money(x, rate) ==
    [cents |-> x * (rate \div 10) + (x * (rate % 10)) \div 10,
     frac  |-> (x * (rate % 10)) % 10]

\* line 152
pax_cost_of(total_pax, avg_delay) ==
    Money(total_pax * avg_delay, COST_PER_MINUTE_PASSENGER)

\* line 153
airline_cost_of(total_flights, avg_delay) ==
    Money(total_flights * avg_delay, COST_PER_MINUTE_AIRLINE_OPS)

\* line 154: pax_cost + airline_cost
total_cost_of(pax_cost, airline_cost) ==
    [cents |-> pax_cost.cents + airline_cost.cents + (pax_cost.frac + airline_cost.frac) \div 10,
     frac  |-> (pax_cost.frac + airline_cost.frac) % 10]

\* round(x, 2): the amount in cents, half to even
Round2(x) ==
    IF x.frac < 5 THEN x.cents
    ELSE IF x.frac > 5 THEN x.cents + 1
    ELSE IF x.cents % 2 = 0 THEN x.cents ELSE x.cents + 1

\* Truncate one entry late
TruncateOneMore(s) == SubSeq(s, 1, Min(Len(s), MaxDestinations + 1))

\* line 165: affected_dests[:20]
Truncate(s) == SubSeq(s, 1, Min(Len(s), MaxDestinations))

\* lines 143-166
CascadeResult(a, direct_count, cascade_df) ==
    LET n_cascade == n_cascade_of(cascade_df)
        total_flights == direct_count + n_cascade
        total_pax == total_pax_of(total_flights)
        avg_delay == avg_delay_of(total_flights, a.delay)
        pax_cost == pax_cost_of(total_pax, avg_delay)
        airline_cost == airline_cost_of(total_flights, avg_delay)
        total_cost == total_cost_of(pax_cost, airline_cost)
    IN  [origin_airport |-> a.airport,
         trigger_delay_minutes |-> a.delay,
         directly_affected_flights |-> direct_count,
         cascade_affected_flights |-> n_cascade,
         total_affected_passengers |-> total_pax,
         estimated_passenger_cost |-> Round2(pax_cost),
         estimated_airline_cost |-> Round2(airline_cost),
         total_economic_impact |-> Round2(total_cost),
         affected_destinations |-> Truncate(affected_dests_of(cascade_df))]

\* ------------------------------------------------------------- the state
VARIABLES
    store,      \* raw_bts_flights
    loads,      \* files loaded so far
    pc,         \* the invocation: "idle", "direct", "cascade", "done", "failed"
    args,       \* its arguments
    direct,     \* direct_count, once the first query has run
    result,     \* the CascadeResult returned
    read1,      \* the table as the first query read it
    read2,      \* the table as the second query read it
    prev,       \* the arguments and result of the call before, if any
    issued,     \* the queries the invocation has sent to the store, in order
    peer,       \* a second session: its own invocation on its own connection
    tool,       \* the MCP tool call in progress
    response,   \* the dict the MCP tool returned
    clock,      \* an HHMM value and the minutes the conversion gave for it
    conns,      \* the connection of the MCP tool call, and of the call before
    rank,       \* a call of one of the two ranking tools of the MCP server
    agent,      \* a run of the pipeline health agent
    feed        \* an ingestion producer and its raw table

vars == << store, loads, pc, args, direct, result, read1, read2, prev,
           issued, peer, tool, response, clock, conns, rank, agent, feed >>

\* the programs next to the calculator and its callers
elsewhere == << rank, agent, feed >>

\* what the steps of calculate_cascade_impact never touch
callers == << peer, tool, response, clock, conns, elsewhere >>

NoArgs == [airport |-> "", date |-> "", delay |-> 0, turnaround |-> 0]
NoResult == CascadeResult(NoArgs, 0, << >>)
NoSession ==
    [pc |-> "idle", args |-> NoArgs, direct |-> 0, result |-> NoResult,
     overlap |-> FALSE]
NoTool == [pc |-> "idle", airport_code |-> "", delay_minutes |-> 0, date |-> ""]
NoResponse == [airport |-> ""]
NoClock == [hhmm |-> Null, minutes |-> Null]
\* open: the tool call in progress holds a connection; left: how the last
\* finished call left the connection it had opened
NoConns == [open |-> FALSE, left |-> "none"]
NoRank ==
    [pc |-> "idle", table |-> << >>, name |-> "", top_n |-> 0,
     delay_cause |-> "", entries |-> << >>]
NoAgent ==
    [pc |-> "idle", db |-> << >>, health_checks |-> << >>, assigned |-> << >>,
     issues_detected |-> << >>, diagnosis |-> "", actions_taken |-> << >>,
     final_report |-> "", iteration |-> 0, trace |-> << >>]
NoFeed ==
    [pc |-> "idle", producer |-> "", json_only |-> FALSE, polls |-> 0,
     fetched |-> << >>, table |-> << >>, polled |-> << >>]

Init ==
    /\ store = EmptyBag
    /\ loads = 0
    /\ pc = "idle"
    /\ args = NoArgs
    /\ direct = 0
    /\ result = NoResult
    /\ read1 = EmptyBag
    /\ read2 = EmptyBag
    /\ prev = << >>
    /\ issued = << >>
    /\ peer = NoSession
    /\ tool = NoTool
    /\ response = NoResponse
    /\ conns = NoConns
    /\ rank = NoRank
    /\ agent = NoAgent
    /\ feed = NoFeed
    /\ clock = NoClock

\* bts_historical_loader.py lines 57-58: one file appended to the table.
\* A file appended after the invocation has returned or failed changes
\* nothing the invocation read or returned, and is left out.
LoadFile(f) ==
    /\ loads < MaxLoads
    /\ pc \notin { "done", "failed" }
    /\ store' = store (+) f
    /\ loads' = loads + 1
    /\ UNCHANGED << pc, args, direct, result, read1, read2, prev, issued,
                    callers >>

\* a caller invokes calculate_cascade_impact
Call(a) ==
    /\ pc = "idle"
    /\ pc' = "direct"
    /\ args' = a
    /\ UNCHANGED << store, loads, direct, result, read1, read2, prev, issued,
                    callers >>

\* lines 76-83
QueryDirect ==
    /\ pc = "direct"
    /\ direct' = DirectCount(store, args.airport, args.date)
    /\ read1' = store
    /\ pc' = "cascade"
    /\ issued' = Append(issued, "direct")
    /\ UNCHANGED << store, loads, args, result, read2, prev, callers >>

\* QueryDirectFails with the query sent again after the error
QueryDirectRetries ==
    /\ pc = "direct"
    /\ issued' = Append(issued, "direct")
    /\ UNCHANGED << store, loads, pc, args, direct, result, read1, read2, prev,
                    callers >>

\* lines 76-83: con.execute raises, and nothing catches it
QueryDirectFails ==
    /\ pc = "direct"
    /\ pc' = "failed"
    /\ issued' = Append(issued, "direct")
    /\ UNCHANGED << store, loads, args, direct, result, read1, read2, prev,
                    callers >>

\* QueryCascade with the flights costed at the mean delay measured for the
\* arrivals counted, in place of the trigger delay
QueryCascadeMeasuredDelay ==
    /\ pc = "cascade"
    /\ \E cascade_df \in OrderByCountDesc(cascade_groups(store, args)) :
           LET late == { r \in BagToSet(store) :
                           /\ r.dest = args.airport
                           /\ r.flightdate = args.date
                           /\ r.arrdelayminutes # Null
                           /\ r.arrdelayminutes > 0 }
               minutes == SumOver(late, [r \in late |->
                              r.arrdelayminutes * CopiesIn(r, store)])
               measured == IF direct = 0 THEN args.delay
                           ELSE (10 * minutes) \div direct
           IN  result' = [CascadeResult([args EXCEPT !.delay = measured],
                                        direct, cascade_df)
                             EXCEPT !.trigger_delay_minutes = args.delay]
    /\ read2' = store
    /\ pc' = "done"
    /\ issued' = Append(issued, "cascade")
    /\ UNCHANGED << store, loads, args, direct, read1, prev, callers >>

\* QueryCascade with the direct count kept running from call to call
QueryCascadeRunningTotal ==
    /\ pc = "cascade"
    /\ \E cascade_df \in OrderByCountDesc(cascade_groups(store, args)) :
           result' = CascadeResult(args,
                         direct + (IF prev = << >> THEN 0
                                   ELSE prev[1].result.directly_affected_flights),
                         cascade_df)
    /\ read2' = store
    /\ pc' = "done"
    /\ issued' = Append(issued, "cascade")
    /\ UNCHANGED << store, loads, args, direct, read1, prev, callers >>

\* lines 141-166
QueryCascade ==
    /\ pc = "cascade"
    /\ \E cascade_df \in OrderByCountDesc(cascade_groups(store, args)) :
           result' = CascadeResult(args, direct, cascade_df)
    /\ read2' = store
    /\ pc' = "done"
    /\ issued' = Append(issued, "cascade")
    /\ UNCHANGED << store, loads, args, direct, read1, prev, callers >>

\* line 141: con.execute raises, and nothing catches it
QueryCascadeFails ==
    /\ pc = "cascade"
    /\ pc' = "failed"
    /\ issued' = Append(issued, "cascade")
    /\ UNCHANGED << store, loads, args, direct, result, read1, read2, prev,
                    callers >>

\* the locals of calculate_cascade_impact end with the invocation
Fresh ==
    /\ args' = NoArgs
    /\ direct' = 0
    /\ result' = NoResult
    /\ read1' = EmptyBag
    /\ read2' = EmptyBag
    /\ issued' = << >>

\* the caller takes the result; the next call may follow
Return ==
    /\ pc = "done"
    /\ pc' = "idle"
    /\ prev' = << [args |-> args, result |-> result] >>
    /\ Fresh
    /\ UNCHANGED << store, loads, callers >>


\* One invocation, while the loader appends files.
Next ==
    \/ \E f \in Files : LoadFile(f)
    \/ \E a \in Args : Call(a)
    \/ QueryDirect
    \/ QueryCascade

Spec == Init /\ [][Next]_vars

\* Invocations one after the other on a table nobody appends to.
RECURSIVE Snapshots(_)
Snapshots(n) ==
    IF n = 0 THEN { EmptyBag }
    ELSE LET less == Snapshots(n - 1)
         IN  less \cup { s (+) f : s \in less, f \in Files }

InitSeq ==
    /\ store \in Snapshots(MaxLoads)
    /\ loads = MaxLoads
    /\ pc = "idle"
    /\ args = NoArgs
    /\ direct = 0
    /\ result = NoResult
    /\ read1 = EmptyBag
    /\ read2 = EmptyBag
    /\ prev = << >>
    /\ issued = << >>
    /\ peer = NoSession
    /\ tool = NoTool
    /\ response = NoResponse
    /\ conns = NoConns
    /\ rank = NoRank
    /\ agent = NoAgent
    /\ feed = NoFeed
    /\ clock = NoClock

NextSeq ==
    \/ \E a \in Args : Call(a)
    \/ QueryDirect
    \/ QueryCascade
    \/ Return

SpecSeq == InitSeq /\ [][NextSeq]_vars

\* One invocation on a table nobody appends to, from the call to the
\* result.
NextOnce ==
    \/ \E a \in Args : Call(a)
    \/ QueryDirect
    \/ QueryCascade

SpecOnce == InitSeq /\ [][NextOnce]_vars

\* ---------------------------------------------------- dashboard/app.py
\* app.py lines 281-283: the button is pressed, the session opens its own
\* read-only connection and calls calculate_cascade_impact
PeerCall(a) ==
    /\ peer.pc = "idle"
    /\ peer' = [peer EXCEPT !.pc = "direct", !.args = a]
    /\ UNCHANGED << store, loads, pc, args, direct, result, read1, read2, prev,
                    issued, tool, response, clock,
                    conns, elsewhere >>

\* cascade_calculator.py lines 76-83, in the session; overlap records
\* whether the other invocation was under way
PeerQueryDirect ==
    /\ peer.pc = "direct"
    /\ peer' = [peer EXCEPT
                  !.direct = DirectCount(store, peer.args.airport, peer.args.date),
                  !.overlap = (pc \in { "direct", "cascade" }),
                  !.pc = "cascade"]
    /\ UNCHANGED << store, loads, pc, args, direct, result, read1, read2, prev,
                    issued, tool, response, clock,
                    conns, elsewhere >>

\* PeerQueryCascade with direct_count shared between the invocations
PeerQueryCascadeSharedCount ==
    /\ peer.pc = "cascade"
    /\ \E cascade_df \in OrderByCountDesc(cascade_groups(store, peer.args)) :
           peer' = [peer EXCEPT
                      !.result = CascadeResult(peer.args, direct, cascade_df),
                      !.pc = "done"]
    /\ UNCHANGED << store, loads, pc, args, direct, result, read1, read2, prev,
                    issued, tool, response, clock,
                    conns, elsewhere >>

\* cascade_calculator.py lines 141-166, in the session
PeerQueryCascade ==
    /\ peer.pc = "cascade"
    /\ \E cascade_df \in OrderByCountDesc(cascade_groups(store, peer.args)) :
           peer' = [peer EXCEPT
                      !.result = CascadeResult(peer.args, peer.direct, cascade_df),
                      !.pc = "done"]
    /\ UNCHANGED << store, loads, pc, args, direct, result, read1, read2, prev,
                    issued, tool, response, clock,
                    conns, elsewhere >>

InitConc ==
    /\ store \in Snapshots(MaxSnapshotFiles)
    /\ loads = MaxSnapshotFiles
    /\ pc = "idle"
    /\ args = NoArgs
    /\ direct = 0
    /\ result = NoResult
    /\ read1 = EmptyBag
    /\ read2 = EmptyBag
    /\ prev = << >>
    /\ issued = << >>
    /\ peer = NoSession
    /\ tool = NoTool
    /\ response = NoResponse
    /\ conns = NoConns
    /\ rank = NoRank
    /\ agent = NoAgent
    /\ feed = NoFeed
    /\ clock = NoClock

\* Two invocations at once, each on its own read-only connection, on a
\* table nobody appends to.
NextConc ==
    \/ \E a \in Args : Call(a)
    \/ QueryDirect
    \/ QueryCascade
    \/ \E a \in PeerArgs : PeerCall(a)
    \/ PeerQueryDirect
    \/ PeerQueryCascade

SpecConc == InitConc /\ [][NextConc]_vars

\* ------------------------------------------------ mcp_server/server.py
\* str.upper() on the airport codes a client sends
Upper(code) ==
    CASE code = "ord" -> "ORD"
      [] code = "zzz" -> "ZZZ"
      [] OTHER -> code

\* server.py line 169: the arguments of calculate_cascade_impact;
\* float(delay_minutes) in tenths, min_turnaround_minutes left to its default
ToolArgs(t) ==
    [airport |-> Upper(t.airport_code), date |-> t.date,
     delay |-> 10 * t.delay_minutes, turnaround |-> DefaultTurnaround]

\* server.py line 188: affected_destinations[:15]
ToolDestinations(s) == SubSeq(s, 1, Min(Len(s), MaxToolDestinations))

\* server.py lines 173-196: the dict returned (the two texts left out)
ToolResponse(t, r) ==
    [airport |-> r.origin_airport,
     trigger_delay_minutes |-> r.trigger_delay_minutes,
     analysis_date |-> t.date,
     impact |->
        [directly_affected_flights |-> r.directly_affected_flights,
         cascade_affected_flights |-> r.cascade_affected_flights,
         total_flights_affected |->
             r.directly_affected_flights + r.cascade_affected_flights,
         total_passengers_impacted |-> r.total_affected_passengers],
     economic_cost |->
        [passenger_delay_cost_usd |-> r.estimated_passenger_cost,
         airline_operations_cost_usd |-> r.estimated_airline_cost,
         total_economic_impact_usd |-> r.total_economic_impact],
     cascade_destinations |-> ToolDestinations(r.affected_destinations)]

\* server.py line 161: a client calls simulate_cascade_impact; _get_con()
\* opens the connection of the call
ToolCall(inp) ==
    /\ tool.pc = "idle"
    /\ pc = "idle"
    /\ tool' = [pc |-> IF inp.date = "" THEN "date" ELSE "calc",
                airport_code |-> inp.airport_code,
                delay_minutes |-> inp.delay_minutes,
                date |-> inp.date]
    /\ response' = NoResponse
    /\ conns' = [conns EXCEPT !.open = TRUE]
    /\ UNCHANGED << store, loads, pc, args, direct, result, read1, read2, prev,
                    issued, peer, clock, elsewhere >>

\* server.py lines 163-166: no date given, the latest date of
\* mart_delay_economics is taken, whatever that table holds
ToolDefaultDate ==
    /\ tool.pc = "date"
    /\ \E d \in Dates : tool' = [tool EXCEPT !.date = d, !.pc = "calc"]
    /\ UNCHANGED << store, loads, pc, args, direct, result, read1, read2, prev,
                    issued, peer, response, clock,
                    conns, elsewhere >>

\* server.py lines 163-166: the query for the latest date raises, nothing
\* catches it, and con.close() of line 171 is not reached
ToolDateFails ==
    /\ tool.pc = "date"
    /\ tool' = NoTool
    /\ prev' = << >>
    /\ conns' = [open |-> FALSE, left |-> "open"]
    /\ UNCHANGED << store, loads, pc, args, direct, result, read1, read2,
                    issued, peer, response, clock, elsewhere >>

\* server.py lines 168-170: calculate_cascade_impact is called
ToolInvoke ==
    /\ tool.pc = "calc"
    /\ Call(ToolArgs(tool))

\* server.py lines 171-196: the connection is closed, the dict returned;
\* conns.left keeps what the call left of its connection
ToolRespond ==
    /\ tool.pc = "calc"
    /\ pc = "done"
    /\ response' = ToolResponse(tool, result)
    /\ tool' = NoTool
    /\ pc' = "idle"
    /\ prev' = << [args |-> args, result |-> result] >>
    /\ Fresh
    /\ conns' = [open |-> FALSE, left |-> "closed"]
    /\ UNCHANGED << store, loads, peer, clock, elsewhere >>

\* server.py lines 168-170: the exception of calculate_cascade_impact
\* leaves the tool, which returns no dict; con.close() of line 171 is not
\* reached
ToolRaise ==
    /\ tool.pc = "calc"
    /\ pc = "failed"
    /\ tool' = NoTool
    /\ pc' = "idle"
    /\ prev' = << >>
    /\ Fresh
    /\ conns' = [open |-> FALSE, left |-> "open"]
    /\ UNCHANGED << store, loads, peer, response, clock, elsewhere >>

InitTool ==
    /\ store \in Snapshots(MaxSnapshotFiles)
    /\ loads = MaxSnapshotFiles
    /\ pc = "idle"
    /\ args = NoArgs
    /\ direct = 0
    /\ result = NoResult
    /\ read1 = EmptyBag
    /\ read2 = EmptyBag
    /\ prev = << >>
    /\ issued = << >>
    /\ peer = NoSession
    /\ tool = NoTool
    /\ response = NoResponse
    /\ conns = NoConns
    /\ rank = NoRank
    /\ agent = NoAgent
    /\ feed = NoFeed
    /\ clock = NoClock

\* Calls of the MCP tool one after the other, each on its own read-only
\* connection, on a table nobody appends to.
NextTool ==
    \/ \E inp \in ToolInputs : ToolCall(inp)
    \/ ToolDefaultDate
    \/ ToolDateFails
    \/ ToolInvoke
    \/ QueryDirect
    \/ QueryDirectFails
    \/ QueryCascade
    \/ QueryCascadeFails
    \/ ToolRespond
    \/ ToolRaise

SpecTool == InitTool /\ [][NextTool]_vars

\* ------------------------- mcp_server/server.py: the two ranking tools
\* what a client sends as top_n and as delay_cause
TopNs == { -5, 0, 1, 2, 20, MaxTopN, MaxTopN + 1, 1000 }
DelayCauses == { "", "Weather", "Carrier" }

\* The table a tool reads, in the order of its ORDER BY: the dominant
\* delay cause of each row (get_hub_vulnerability_ranking reads no cause).
\* Tables of one cause and tables of two, of 0 to MaxRows rows.
TableSizes == { 0, 1, 3, MaxTopN, MaxTopN + 1, MaxRows }
RankTables ==
    { [i \in 1..k |-> "Weather"] : k \in TableSizes }
        \cup { [i \in 1..k |-> IF i % 2 = 1 THEN "Weather" ELSE "Carrier"] :
                  k \in TableSizes }

Max(a, b) == IF a >= b THEN a ELSE b

\* TopN without the ceiling of 50
TopNNoCeiling(top_n) == Max(MinTopN, top_n)

\* server.py lines 217 and 281: n = min(max(1, top_n), 50)
TopN(top_n) == Min(Max(MinTopN, top_n), MaxTopN)

\* server.py lines 283-287: the WHERE clause, put in only for a cause
\* that is not empty; the numbers of the rows it keeps, in order
Where(table, delay_cause) ==
    SelectSeq([i \in 1..Len(table) |-> i],
              LAMBDA i : delay_cause = "" \/ table[i] = delay_cause)

\* LIMIT n
Limit(rows, n) == SubSeq(rows, 1, Min(n, Len(rows)))

\* server.py lines 203-262: get_hub_vulnerability_ranking(top_n)
RankingCall(top_n) ==
    /\ rank.pc = "idle"
    /\ rank' = [rank EXCEPT
                  !.pc = "done",
                  !.name = "get_hub_vulnerability_ranking",
                  !.top_n = top_n,
                  !.delay_cause = "",
                  !.entries = Limit(Where(rank.table, ""), TopN(top_n))]
    /\ UNCHANGED << store, loads, pc, args, direct, result, read1, read2, prev,
                    issued, peer, tool, response, clock, conns, agent, feed >>

\* server.py lines 269-323: get_costliest_routes(top_n, delay_cause)
RoutesCall(top_n, delay_cause) ==
    /\ rank.pc = "idle"
    /\ rank' = [rank EXCEPT
                  !.pc = "done",
                  !.name = "get_costliest_routes",
                  !.top_n = top_n,
                  !.delay_cause = delay_cause,
                  !.entries = Limit(Where(rank.table, delay_cause), TopN(top_n))]
    /\ UNCHANGED << store, loads, pc, args, direct, result, read1, read2, prev,
                    issued, peer, tool, response, clock, conns, agent, feed >>

\* the client has the dict; the next call may follow
RankReturn ==
    /\ rank.pc = "done"
    /\ rank' = [NoRank EXCEPT !.table = rank.table]
    /\ UNCHANGED << store, loads, pc, args, direct, result, read1, read2, prev,
                    issued, peer, tool, response, clock, conns, agent, feed >>

InitRank ==
    /\ rank \in { [NoRank EXCEPT !.table = t] : t \in RankTables }
    /\ store = EmptyBag
    /\ loads = 0
    /\ pc = "idle"
    /\ args = NoArgs
    /\ direct = 0
    /\ result = NoResult
    /\ read1 = EmptyBag
    /\ read2 = EmptyBag
    /\ prev = << >>
    /\ issued = << >>
    /\ peer = NoSession
    /\ tool = NoTool
    /\ response = NoResponse
    /\ clock = NoClock
    /\ conns = NoConns
    /\ agent = NoAgent
    /\ feed = NoFeed

\* Calls of the two ranking tools, one after the other.
NextRank ==
    \/ \E top_n \in TopNs : RankingCall(top_n)
    \/ \E top_n \in TopNs, delay_cause \in DelayCauses : RoutesCall(top_n, delay_cause)
    \/ RankReturn

SpecRank == InitRank /\ [][NextRank]_vars

\* ------------------------------- agents/pipeline_health_agent.py
\* the keys of expectations, in the order of the dict
TableOrder ==
    << "raw_bts_flights", "raw_opensky_positions", "raw_weather_observations",
       "raw_faa_airport_status", "stg_bts_flights", "mart_delay_economics",
       "mart_cascade_vulnerability" >>
Tables == { TableOrder[i] : i \in 1..Len(TableOrder) }
\* the tables with a freshness_col and a freshness_max_age_hours
Streaming ==
    { "raw_opensky_positions", "raw_weather_observations", "raw_faa_airport_status" }
\* "opensky" in table, "weather" in table, "faa" in table
IsOpensky(table) == table = "raw_opensky_positions"
IsWeather(table) == table = "raw_weather_observations"
IsFaa(table) == table = "raw_faa_airport_status"
\* "mart_" in table or "stg_" in table
IsDerived(table) ==
    table \in { "stg_bts_flights", "mart_delay_economics", "mart_cascade_vulnerability" }

\* What the queries of one pass find in a table: its row count ("error":
\* the count query raises, "zero", "low": below min_rows, "ok"), whether
\* its latest record is older than the maximum age, which required column
\* is missing ("none", "first", "other"), and whether more than 20% of the
\* first required column is NULL.
Healthy == [count |-> "ok", old |-> FALSE, missing |-> "none", nulls |-> FALSE]
Conditions ==
    [count : { "error", "zero", "low", "ok" }, old : BOOLEAN,
     missing : { "none", "first", "other" }, nulls : BOOLEAN]
\* the conditions the model starts a table in, besides Healthy
SickConditions ==
    { [Healthy EXCEPT !.count = "error"],
      [Healthy EXCEPT !.count = "zero"],
      [Healthy EXCEPT !.count = "low"],
      [Healthy EXCEPT !.old = TRUE],
      [Healthy EXCEPT !.count = "low", !.old = TRUE],
      [Healthy EXCEPT !.old = TRUE, !.nulls = TRUE],
      [Healthy EXCEPT !.missing = "other"],
      [Healthy EXCEPT !.missing = "other", !.nulls = TRUE],
      [Healthy EXCEPT !.missing = "first", !.nulls = TRUE] }
\* A database: a condition for each table, at most MaxSick of them not
\* Healthy; only a streaming table has an age.
Databases ==
    UNION { { [t \in Tables |-> IF t \in S THEN f[t] ELSE Healthy] :
                f \in { g \in [S -> SickConditions] :
                           \A t \in S : g[t].old => t \in Streaming } } :
            S \in { T \in SUBSET Tables : Cardinality(T) <= MaxSick } }

\* lines 100-173: the values check["status"] takes for one table, in the
\* order of the assignments
StatusAssigned(table, c) ==
    IF c.count = "error"
    THEN << "healthy", "critical" >>
    ELSE << "healthy" >>
         \o (IF c.count = "zero" THEN << "critical" >>
             ELSE IF c.count = "low" THEN << "warning" >> ELSE << >>)
         \o (IF table \in Streaming /\ c.count # "zero" /\ c.old
             THEN << "stale" >> ELSE << >>)
         \o (IF c.missing # "none" THEN << "critical" >> ELSE << >>)
         \o (IF c.count # "zero" /\ c.missing # "first" /\ c.nulls
             THEN << "warning" >> ELSE << >>)

\* the status the check of a table ends with
StatusOf(table, c) == StatusAssigned(table, c)[Len(StatusAssigned(table, c))]

Visit(a, node, found) ==
    [a EXCEPT !.trace = Append(a.trace, [node |-> node, found |-> found])]

\* the re-check left out: remediate -> detect_issues
EdgeWithoutRecheck(node) ==
    CASE node = "check_health" -> "detect_issues"
      [] node = "diagnose" -> "remediate"
      [] node = "remediate" -> "detect_issues"
      [] node = "generate_report" -> "END"

\* lines 491-506: set_entry_point and the three add_edge
Edge(node) ==
    CASE node = "check_health" -> "detect_issues"
      [] node = "diagnose" -> "remediate"
      [] node = "remediate" -> "check_health"
      [] node = "generate_report" -> "END"

\* should_remediate with one attempt more
should_remediate_three_attempts(a) ==
    IF a.issues_detected = << >> THEN "generate_report"
    ELSE IF a.iteration > MaxAttempts + 1 THEN "generate_report"
    ELSE "diagnose"

\* lines 462-474
should_remediate(a) ==
    IF a.issues_detected = << >> THEN "generate_report"
    ELSE IF a.iteration > MaxAttempts THEN "generate_report"
    ELSE "diagnose"

\* lines 47-187: node 1
check_pipeline_health ==
    /\ agent.pc = "check_health"
    /\ agent' = [Visit(agent, "check_health", FALSE) EXCEPT
                   !.health_checks = [t \in Tables |-> StatusOf(t, agent.db[t])],
                   !.assigned = [t \in Tables |-> StatusAssigned(t, agent.db[t])],
                   !.iteration = agent.iteration + 1,
                   !.pc = Edge("check_health")]
    /\ UNCHANGED << store, loads, pc, args, direct, result, read1, read2, prev,
                    issued, peer, tool, response, clock, conns, rank, feed >>

\* lines 197-206: the issues, in the order of the checks
IssuesOf(health_checks) ==
    LET sick == SelectSeq(TableOrder, LAMBDA t : health_checks[t] # "healthy")
    IN  [i \in 1..Len(sick) |-> [table |-> sick[i], severity |-> health_checks[sick[i]]]]

\* lines 193-217 and 495-502: node 2 and the conditional edge after it
detect_issues ==
    /\ agent.pc = "detect_issues"
    /\ LET issues == IssuesOf(agent.health_checks)
           after == [Visit(agent, "detect_issues", issues # << >>) EXCEPT
                        !.issues_detected = issues]
       IN  agent' = [after EXCEPT !.pc = should_remediate(after)]
    /\ UNCHANGED << store, loads, pc, args, direct, result, read1, read2, prev,
                    issued, peer, tool, response, clock, conns, rank, feed >>

\* lines 223-288: node 3; the diagnosis is one of the texts of lines 266, 281, 285
Diagnoses == { "GOOGLE_API_KEY not set", "response.content", "LLM diagnosis failed" }
diagnose_with_llm ==
    /\ agent.pc = "diagnose"
    /\ \E text \in Diagnoses :
          agent' = [Visit(agent, "diagnose", FALSE) EXCEPT
                       !.diagnosis = IF agent.issues_detected = << >>
                                     THEN "Pipeline is healthy"
                                     ELSE text,
                       !.pc = Edge("diagnose")]
    /\ UNCHANGED << store, loads, pc, args, direct, result, read1, read2, prev,
                    issued, peer, tool, response, clock, conns, rank, feed >>

\* lines 356-392: the statuses _run_remediation returns
RunStatuses == { "success", "failed", "timeout", "error" }

\* lines 301-343: what the loop appends for one issue, ran being the
\* status of the command if one is run
ActionsFor(issue, ran) ==
    IF issue.severity = "stale"
    THEN IF IsOpensky(issue.table)
         THEN << [action |-> "Re-ingest OpenSky positions", status |-> ran] >>
         ELSE IF IsWeather(issue.table)
         THEN << [action |-> "Re-ingest NOAA weather", status |-> ran] >>
         ELSE IF IsFaa(issue.table)
         THEN << [action |-> "Re-ingest FAA status", status |-> ran] >>
         ELSE << >>
    ELSE IF issue.severity = "critical" /\ IsDerived(issue.table)
    THEN << [action |-> "Rebuild dbt models", status |-> ran] >>
    ELSE IF issue.severity = "warning"
    THEN << [action |-> "Monitor the table", status |-> "logged"] >>
    ELSE << >>

RECURSIVE ActionsOf(_, _, _)
ActionsOf(issues, ran, i) ==
    IF i > Len(issues) THEN << >>
    ELSE ActionsFor(issues[i], ran[i]) \o ActionsOf(issues, ran, i + 1)

\* lines 345-350
Placeholder == [action |-> "No remediation needed", status |-> "skipped"]

\* the database after the commands: a command that succeeded has put the
\* table of its issue in order, the others have changed nothing
Remedied(db, issues, ran) ==
    [t \in Tables |->
        IF \E i \in 1..Len(issues) :
              /\ issues[i].table = t
              /\ ran[i] = "success"
              /\ ActionsFor(issues[i], ran[i]) # << >>
              /\ issues[i].severity # "warning"
        THEN Healthy
        ELSE db[t]]

\* lines 294-353: node 4
auto_remediate ==
    /\ agent.pc = "remediate"
    /\ \E ran \in [1..Len(agent.issues_detected) -> RunStatuses] :
          LET actions == ActionsOf(agent.issues_detected, ran, 1)
          IN  agent' = [Visit(agent, "remediate", FALSE) EXCEPT
                           !.actions_taken = IF actions = << >>
                                             THEN << Placeholder >>
                                             ELSE actions,
                           !.db = Remedied(agent.db, agent.issues_detected, ran),
                           !.pc = Edge("remediate")]
    /\ UNCHANGED << store, loads, pc, args, direct, result, read1, read2, prev,
                    issued, peer, tool, response, clock, conns, rank, feed >>

\* lines 398-456: node 5
generate_report ==
    /\ agent.pc = "generate_report"
    /\ agent' = [Visit(agent, "generate_report", FALSE) EXCEPT
                   !.final_report = "SKYDELAY PIPELINE HEALTH REPORT",
                   !.pc = Edge("generate_report")]
    /\ UNCHANGED << store, loads, pc, args, direct, result, read1, read2, prev,
                    issued, peer, tool, response, clock, conns, rank, feed >>

\* lines 514-532: main builds the graph and invokes it on the initial state
InitAgent ==
    /\ agent \in { [NoAgent EXCEPT !.pc = "check_health", !.db = d] : d \in Databases }
    /\ store = EmptyBag
    /\ loads = 0
    /\ pc = "idle"
    /\ args = NoArgs
    /\ direct = 0
    /\ result = NoResult
    /\ read1 = EmptyBag
    /\ read2 = EmptyBag
    /\ prev = << >>
    /\ issued = << >>
    /\ peer = NoSession
    /\ tool = NoTool
    /\ response = NoResponse
    /\ clock = NoClock
    /\ conns = NoConns
    /\ rank = NoRank
    /\ feed = NoFeed

\* One run of the compiled graph.
NextAgent ==
    \/ check_pipeline_health
    \/ detect_issues
    \/ diagnose_with_llm
    \/ auto_remediate
    \/ generate_report

SpecAgent == InitAgent /\ [][NextAgent]_vars

\* agent.invoke runs the node that is due: no node of a run waits for ever
SpecAgentRuns == SpecAgent /\ WF_vars(NextAgent)

\* ---------------------- ingestion/*_producer.py: the polling loops
Producers == { "opensky_producer", "noaa_weather_producer", "faa_asws_producer" }

\* What requests.get meets: a timeout, an HTTP error (raise_for_status),
\* or a body; items is the number of records in the body, which after a
\* failure is whatever part of it arrived.
Responses == [status : { "timeout", "http_error", "ok" }, items : 0..MaxItems]

\* the records of poll n, in the order of the body
Records(n, k) == [i \in 1..k |-> [poll |-> n, item |-> i]]

\* faa_asws_producer lines 134-145: the record written when no airport
\* has a delay
NasRecord(n) == [poll |-> n, item |-> 0]

\* a fetch that parses whatever arrived before the failure
fetch_partial(producer, resp, n) ==
    IF producer = "faa_asws_producer" /\ resp.items = 0 /\ resp.status = "ok"
    THEN << NasRecord(n) >>
    ELSE Records(n, resp.items)

\* fetch_aircraft_states (opensky lines 41-95), fetch_metar (noaa lines
\* 48-117), fetch_all_airport_statuses (faa lines 52-157)
fetch(producer, resp, n) ==
    IF resp.status # "ok" THEN << >>
    ELSE IF producer = "faa_asws_producer" /\ resp.items = 0
    THEN << NasRecord(n) >>
    ELSE Records(n, resp.items)

\* the first statement of a cycle
FeedFetch ==
    /\ feed.pc = "fetch"
    /\ feed.polls < MaxPolls
    /\ \E resp \in Responses :
          LET rows == fetch(feed.producer, resp, feed.polls + 1)
          IN  feed' = [feed EXCEPT
                          !.pc = "save",
                          !.polls = feed.polls + 1,
                          !.fetched = rows,
                          !.polled = Append(feed.polled,
                                            [status |-> resp.status,
                                             rows |-> rows])]
    /\ UNCHANGED << store, loads, pc, args, direct, result, read1, read2, prev,
                    issued, peer, tool, response, clock, conns, rank, agent >>

\* save_to_duckdb (opensky lines 98-138, noaa 145-179, faa 160-186),
\* which opensky_producer calls only without --json-only (line 171)
FeedSave ==
    /\ feed.pc = "save"
    /\ feed' = [feed EXCEPT
                  !.pc = "sleep",
                  !.table = IF feed.json_only \/ feed.fetched = << >>
                            THEN feed.table
                            ELSE feed.table \o feed.fetched]
    /\ UNCHANGED << store, loads, pc, args, direct, result, read1, read2, prev,
                    issued, peer, tool, response, clock, conns, rank, agent >>

\* save_to_json and time.sleep, then the next cycle
FeedSleep ==
    /\ feed.pc = "sleep"
    /\ feed' = [feed EXCEPT !.pc = "fetch"]
    /\ UNCHANGED << store, loads, pc, args, direct, result, read1, read2, prev,
                    issued, peer, tool, response, clock, conns, rank, agent >>

\* a producer started without --once on an empty raw table; only
\* opensky_producer has --json-only
InitFeed ==
    /\ feed \in { [NoFeed EXCEPT !.pc = "fetch", !.producer = p, !.json_only = j] :
                     p \in Producers, j \in BOOLEAN }
    /\ feed.json_only => feed.producer = "opensky_producer"
    /\ store = EmptyBag
    /\ loads = 0
    /\ pc = "idle"
    /\ args = NoArgs
    /\ direct = 0
    /\ result = NoResult
    /\ read1 = EmptyBag
    /\ read2 = EmptyBag
    /\ prev = << >>
    /\ issued = << >>
    /\ peer = NoSession
    /\ tool = NoTool
    /\ response = NoResponse
    /\ clock = NoClock
    /\ conns = NoConns
    /\ rank = NoRank
    /\ agent = NoAgent

\* while True: fetch, save, sleep
NextFeed ==
    \/ FeedFetch
    \/ FeedSave
    \/ FeedSleep

SpecFeed == InitFeed /\ [][NextFeed]_vars

\* --------------------------------------- the conversion on its own
\* cascade_calculator.py lines 44-50: the expression of
\* hhmm_to_minutes evaluated on the value of a scheduled-time column
Convert ==
    /\ clock.minutes = Null
    /\ clock' = [clock EXCEPT !.minutes = hhmm_to_minutes(clock.hhmm)]
    /\ UNCHANGED << store, loads, pc, args, direct, result, read1, read2, prev,
                    issued, peer, tool, response,
                    conns, elsewhere >>

InitClock ==
    /\ clock \in { [hhmm |-> v, minutes |-> Null] : v \in 0..MaxClock }
    /\ store = EmptyBag
    /\ loads = 0
    /\ pc = "idle"
    /\ args = NoArgs
    /\ direct = 0
    /\ result = NoResult
    /\ read1 = EmptyBag
    /\ read2 = EmptyBag
    /\ prev = << >>
    /\ issued = << >>
    /\ peer = NoSession
    /\ tool = NoTool
    /\ response = NoResponse
    /\ conns = NoConns
    /\ rank = NoRank
    /\ agent = NoAgent
    /\ feed = NoFeed

NextClock == Convert

SpecClock == InitClock /\ [][NextClock]_vars

\* ------------------------------------------------------------ the claims
\* What the specification counts, stated on the rows themselves.
Copies(tbl, r) == CopiesIn(r, tbl)

\* an arrival at the airport that date, and a departure from it that is
\* not cancelled, of one airline, the departure 20 minutes or more and at
\* most min_turnaround + trigger_delay minutes after the arrival, and the
\* arrival delayed by more than that gap
ClaimPair(i, o, a) ==
    /\ i.dest = a.airport
    /\ i.flightdate = a.date
    /\ o.origin = a.airport
    /\ o.flightdate = a.date
    /\ o.cancelled = 0
    /\ i.airline = o.airline
    /\ i.crsarrtime # Null
    /\ o.crsdeptime # Null
    /\ i.arrdelayminutes # Null
    /\ LET gap == hhmm_to_minutes(o.crsdeptime) - hhmm_to_minutes(i.crsarrtime)
       IN  /\ gap > 0
           /\ gap >= 20
           /\ 10 * gap <= 10 * a.turnaround + a.delay
           /\ i.arrdelayminutes > gap

ClaimArrivals(tbl, a) ==
    { r \in BagToSet(tbl) : r.dest = a.airport /\ r.flightdate = a.date }

ClaimDepartures(tbl, a) ==
    { r \in BagToSet(tbl) : r.origin = a.airport /\ r.flightdate = a.date }

ClaimPairs(tbl, a) ==
    { p \in ClaimArrivals(tbl, a) \X ClaimDepartures(tbl, a) : ClaimPair(p[1], p[2], a) }

ClaimPairCount(tbl, a) ==
    LET ps == ClaimPairs(tbl, a)
    IN  SumOver(ps, [p \in ps |-> Copies(tbl, p[1]) * Copies(tbl, p[2])])

\* the destinations of the pairs ps, each with the number of its matches
DestCountsOf(tbl, ps) ==
    { << d, LET g == { p \in ps : p[2].dest = d }
            IN  SumOver(g, [p \in g |-> Copies(tbl, p[1]) * Copies(tbl, p[2])]) >>
      : d \in { p[2].dest : p \in ps } }

ClaimDestCounts(tbl, a) ==
    UNION { DestCountsOf(tbl, ps) : ps \in { { p : p \in ClaimPairs(tbl, a) } } }

CountOf(counts, d) == (CHOOSE t \in counts : t[1] = d)[2]

PositiveArrivals(tbl, airport, date) ==
    { r \in BagToSet(tbl) :
        /\ r.dest = airport
        /\ r.flightdate = date
        /\ r.arrdelayminutes # Null
        /\ r.arrdelayminutes > 0 }

ClaimDirectCount(tbl, airport, date) ==
    LET rs == PositiveArrivals(tbl, airport, date)
    IN  SumOver(rs, [r \in rs |-> Copies(tbl, r)])

Listed(l) == { l[k] : k \in 1..Len(l) }

\* C1: cascade_affected_flights is the number of (inbound, outbound) row
\* pairs of the table the cascade query read that meet every condition of
\* the specification, and counts no other pair.
C1_CascadeCountsThePairs ==
    pc = "done" => result.cascade_affected_flights = ClaimPairCount(read2, args)

\* a result with matches, read from a table that also holds a same-airline
\* arrival and departure at the airport that do not match
C1_Witness ==
    /\ pc = "done"
    /\ result.cascade_affected_flights > 1
    /\ \E i, o \in BagToSet(read2) :
          /\ i.dest = args.airport
          /\ o.origin = args.airport
          /\ i.airline = o.airline
          /\ ~ClaimPair(i, o, args)

\* C2: the total_economic_impact returned is the sum of the
\* estimated_passenger_cost and the estimated_airline_cost returned.
C2_TotalIsSumOfReportedCosts ==
    pc = "done" =>
        result.total_economic_impact =
            result.estimated_passenger_cost + result.estimated_airline_cost

\* C3: total_affected_passengers is total_flights * avg_seats * load_factor
\* rounded to the nearest integer, and is not negative.
C3_PassengersRoundedToNearest ==
    pc = "done" =>
        LET total_flights == result.directly_affected_flights
                                + result.cascade_affected_flights
            hundredths == total_flights * 160 * 87
        IN  /\ result.total_affected_passengers = (hundredths + 50) \div 100
            /\ result.total_affected_passengers >= 0

\* C4 as written: at most 20 destinations, each with strictly more matches
\* than the next, and no unlisted destination with more matches than a
\* listed one.
C4_StrictlyDescending ==
    pc = "done" =>
        \A counts \in { ClaimDestCounts(read2, args) } :
        LET l == result.affected_destinations
        IN  /\ Len(l) <= 20
            /\ \A k \in 1..Len(l) : \E t \in counts : t[1] = l[k]
            /\ \A k \in 1..(Len(l) - 1) : CountOf(counts, l[k]) > CountOf(counts, l[k + 1])
            /\ \A t \in { u \in counts : u[1] \notin Listed(l) } :
                  \A k \in 1..Len(l) : t[2] <= CountOf(counts, l[k])

\* C4 amended: at most 20 destinations, each with at least as many matches
\* as the next, and no unlisted destination with more matches than a
\* listed one.
C4_Descending ==
    pc = "done" =>
        \A counts \in { ClaimDestCounts(read2, args) } :
        LET l == result.affected_destinations
        IN  /\ Len(l) <= 20
            /\ \A k \in 1..Len(l) : \E t \in counts : t[1] = l[k]
            /\ \A k \in 1..(Len(l) - 1) : CountOf(counts, l[k]) >= CountOf(counts, l[k + 1])
            /\ \A t \in { u \in counts : u[1] \notin Listed(l) } :
                  \A k \in 1..Len(l) : t[2] <= CountOf(counts, l[k])

\* a list cut to 20 of more destinations, with two neighbours of equal count
C4_Witness ==
    /\ pc = "done"
    /\ Len(result.affected_destinations) = 20
    /\ \E counts \in { ClaimDestCounts(read2, args) } :
           /\ Cardinality(counts) > 20
           /\ \E k \in 1..19 :
                 CountOf(counts, result.affected_destinations[k])
                   = CountOf(counts, result.affected_destinations[k + 1])

\* C5: a call with the arguments of the call before it, on the same
\* table, returns the same result in every field.
C5_SameCallSameResult ==
    (pc = "done" /\ prev # << >>) =>
        (prev[1].args = args => prev[1].result = result)

\* C6: the result is the result of the computation on one state of the
\* table: both counts come from the table as one of the reads saw it.
C6_OnePointInTime ==
    pc = "done" =>
        \E s \in { read1, read2 } :
            /\ result.directly_affected_flights = ClaimDirectCount(s, args.airport, args.date)
            /\ result.cascade_affected_flights = ClaimPairCount(s, args)

\* C7: of two calls that differ in the trigger delay only, the one with
\* the larger delay reports at least the total_economic_impact of the other.
C7_CostMonotoneInDelay ==
    (pc = "done" /\ prev # << >>) =>
        LET before == prev[1]
        IN  ( /\ before.args.airport = args.airport
              /\ before.args.date = args.date
              /\ before.args.turnaround = args.turnaround
              /\ before.args.delay <= args.delay )
            => before.result.total_economic_impact <= result.total_economic_impact

\* a larger delay that widened the window to more matches and a larger cost
C7_Witness ==
    /\ pc = "done"
    /\ prev # << >>
    /\ prev[1].args.turnaround = args.turnaround
    /\ prev[1].args.delay < args.delay
    /\ 0 < prev[1].result.cascade_affected_flights
    /\ prev[1].result.cascade_affected_flights < result.cascade_affected_flights
    /\ prev[1].result.total_economic_impact < result.total_economic_impact

\* C8: of two calls that differ in min_turnaround only, the one with the
\* larger min_turnaround matches every pair the other matches, and so
\* reports at least its cascade_affected_flights.
C8_CascadeMonotoneInTurnaround ==
    (pc = "done" /\ prev # << >>) =>
        LET before == prev[1]
        IN  ( /\ before.args.airport = args.airport
              /\ before.args.date = args.date
              /\ before.args.delay = args.delay
              /\ before.args.turnaround <= args.turnaround )
            => /\ before.result.cascade_affected_flights <= result.cascade_affected_flights
               /\ cascade_matches(store, before.args) \subseteq cascade_matches(store, args)

\* a larger min_turnaround that added matches to those of the call before
C8_Witness ==
    /\ pc = "done"
    /\ prev # << >>
    /\ prev[1].args.delay = args.delay
    /\ prev[1].args.turnaround < args.turnaround
    /\ 0 < prev[1].result.cascade_affected_flights
    /\ prev[1].result.cascade_affected_flights < result.cascade_affected_flights

\* C9: directly_affected_flights is the number of rows of the table the
\* first query read that arrive at the airport on the date with an arrival
\* delay that is not null and above 0, whatever the delay and turnaround.
C9_DirectCountsPositiveArrivals ==
    /\ pc \in { "cascade", "done" } =>
          direct = ClaimDirectCount(read1, args.airport, args.date)
    /\ pc = "done" => result.directly_affected_flights = direct

\* a positive count from a table that also holds arrivals at the airport
\* with a delay of 0, with no delay, or of another date
C9_Witness ==
    /\ pc = "done"
    /\ result.directly_affected_flights > 0
    /\ \E r \in BagToSet(read1) :
          r.dest = args.airport /\ r.flightdate = args.date /\ r.arrdelayminutes = 0
    /\ \E r \in BagToSet(read1) :
          r.dest = args.airport /\ r.flightdate = args.date /\ r.arrdelayminutes = Null
    /\ \E r \in BagToSet(read1) :
          r.dest = args.airport /\ r.flightdate # args.date /\ r.arrdelayminutes > 0

\* C10: when the table the call read holds no arrival at the airport on
\* the date with a positive delay, both counts are 0.
C10_NoDelayedArrivalNoImpact ==
    (pc = "done" /\ PositiveArrivals(read2, args.airport, args.date) = {}) =>
        /\ result.directly_affected_flights = 0
        /\ result.cascade_affected_flights = 0

\* no delayed arrival, but an arrival and a later departure of one airline
C10_Witness ==
    /\ pc = "done"
    /\ PositiveArrivals(read2, args.airport, args.date) = {}
    /\ result.directly_affected_flights = 0
    /\ \E i, o \in BagToSet(read2) :
          /\ i.dest = args.airport
          /\ i.flightdate = args.date
          /\ o.origin = args.airport
          /\ o.flightdate = args.date
          /\ o.cancelled = 0
          /\ i.airline = o.airline
          /\ i.crsarrtime # Null
          /\ o.crsdeptime # Null
          /\ hhmm_to_minutes(o.crsdeptime) - hhmm_to_minutes(i.crsarrtime) >= 20

\* C11: when the table holds no row of the airport on the date (an airport
\* the table never names included), the call returns a result with both
\* counts 0, no passenger, the three costs 0.00 and no destination,
\* whatever the trigger delay.
NoRowOf(tbl, airport, date) ==
    \A r \in BagToSet(tbl) :
        r.flightdate # date \/ (r.origin # airport /\ r.dest # airport)

C11_NoRowNoImpact ==
    (pc = "done" /\ NoRowOf(store, args.airport, args.date)) =>
        /\ result.origin_airport = args.airport
        /\ result.trigger_delay_minutes = args.delay
        /\ result.directly_affected_flights = 0
        /\ result.cascade_affected_flights = 0
        /\ result.total_affected_passengers = 0
        /\ result.estimated_passenger_cost = 0
        /\ result.estimated_airline_cost = 0
        /\ result.total_economic_impact = 0
        /\ result.affected_destinations = << >>

\* a call for an airport unknown to a table that holds delayed arrivals
\* of that date elsewhere
C11_Witness ==
    /\ pc = "done"
    /\ args.airport = "ZZZ"
    /\ NoRowOf(store, args.airport, args.date)
    /\ PositiveArrivals(store, Hub, args.date) # {}
    /\ result.directly_affected_flights = 0

\* C12: a record that lacks a required field (an arrival without delay or
\* without scheduled arrival time, a departure without scheduled departure
\* time) takes part in no match and the call returns all the same: the
\* cascade count and the destinations returned are those of the table
\* without these records.
MissingField(r, a) ==
    /\ r.flightdate = a.date
    /\ \/ r.dest = a.airport /\ (r.arrdelayminutes = Null \/ r.crsarrtime = Null)
       \/ r.origin = a.airport /\ r.crsdeptime = Null

\* the pairs of the specification among the records that lack no field
WholePairs(tbl, a) ==
    { p \in { r \in ClaimArrivals(tbl, a) : ~MissingField(r, a) }
             \X { r \in ClaimDepartures(tbl, a) : ~MissingField(r, a) } :
        LET gap == ((p[2].crsdeptime \div 100) * 60 + (p[2].crsdeptime % 100))
                   - ((p[1].crsarrtime \div 100) * 60 + (p[1].crsarrtime % 100))
        IN  /\ p[1].airline = p[2].airline
            /\ p[2].cancelled = 0
            /\ gap >= 20
            /\ 10 * gap <= 10 * a.turnaround + a.delay
            /\ p[1].arrdelayminutes > gap }

C12_MissingFieldNeverMatches ==
    pc = "done" =>
        \A counts \in { DestCountsOf(read2, ps) :
                            ps \in { { p : p \in WholePairs(read2, args) } } } :
            /\ result.cascade_affected_flights =
                   SumOver(counts, [t \in counts |-> t[2]])
            /\ Listed(result.affected_destinations) \subseteq { t[1] : t \in counts }
            /\ Len(result.affected_destinations) =
                   Min(Cardinality(counts), MaxDestinations)

\* a result with matches, from a table that holds a late arrival without
\* arrival time next to a departure of its airline, an arrival without
\* delay and a departure without departure time
C12_Witness ==
    /\ pc = "done"
    /\ result.cascade_affected_flights > 0
    /\ \E i \in ClaimArrivals(read2, args), o \in ClaimDepartures(read2, args) :
          /\ i.crsarrtime = Null
          /\ i.arrdelayminutes >= LateArrivalMinutes
          /\ o.crsdeptime # Null
          /\ o.cancelled = 0
          /\ i.airline = o.airline
    /\ \E j \in ClaimArrivals(read2, args) : j.arrdelayminutes = Null
    /\ \E o \in ClaimDepartures(read2, args) : o.crsdeptime = Null /\ o.cancelled = 0

\* C13: when a query of a call fails, the call fails as a whole: it has
\* returned no CascadeResult, its caller returns no dict and is left with
\* no result of the call, and no query of the call was sent twice.
C13_FailureIsPropagated ==
    /\ \A i, j \in 1..Len(issued) : i < j => issued[i] # issued[j]
    /\ pc = "failed" =>
          /\ issued \in { << "direct" >>, << "direct", "cascade" >> }
          /\ result = NoResult
          /\ response = NoResponse
    /\ response # NoResponse =>
          /\ prev # << >>
          /\ response.airport = prev[1].result.origin_airport

\* the cascade query fails after the direct query found delayed arrivals
C13_Witness ==
    /\ pc = "failed"
    /\ issued = << "direct", "cascade" >>
    /\ direct > 0
    /\ result = NoResult
    /\ response = NoResponse

\* C14: no step of a call or of the tool changes the table, and whatever
\* calls came before, completed or failed, the result of a call is one a
\* first call with these arguments returns on the table as it is.
AloneResults(tbl, a) ==
    { CascadeResult(a, DirectCount(tbl, a.airport, a.date), cascade_df) :
        cascade_df \in OrderByCountDesc(cascade_groups(tbl, a)) }

C14_NoStateBetweenCalls ==
    /\ [][store' = store]_vars
    /\ [](pc = "done" => result \in AloneResults(store, args))

\* a call that finds nothing, after a call with other arguments that
\* found delayed arrivals and matches
C14_Witness ==
    /\ pc = "done"
    /\ prev # << >>
    /\ prev[1].args # args
    /\ prev[1].result.directly_affected_flights > 0
    /\ prev[1].result.cascade_affected_flights > 0
    /\ result.directly_affected_flights = 0
    /\ result.total_economic_impact = 0

\* C15: with two invocations at once on an unchanged table, each on its
\* own connection and in any interleaving of their queries, each returns
\* a result it returns when it runs alone.
C15_ConcurrentAsAlone ==
    [][ /\ (pc = "cascade" /\ pc' = "done") =>
              result' \in AloneResults(store, args)
        /\ (peer.pc = "cascade" /\ peer'.pc = "done") =>
              peer'.result \in AloneResults(store, peer.args) ]_vars

\* both have returned, with different results; the first query of the
\* session ran while the other invocation was under way
C15_Witness ==
    /\ pc = "done"
    /\ peer.pc = "done"
    /\ peer.overlap
    /\ result.directly_affected_flights > 0
    /\ result.cascade_affected_flights # peer.result.cascade_affected_flights
    /\ peer.result.cascade_affected_flights > 0

\* C16: for one positive trigger delay, the passenger cost, the airline
\* cost and the total are never negative, and none of them is lower for
\* the call with more affected flights in total.
TotalFlights(r) == r.directly_affected_flights + r.cascade_affected_flights

C16_CostMonotoneInFlights ==
    pc = "done" =>
        /\ result.estimated_passenger_cost >= 0
        /\ result.estimated_airline_cost >= 0
        /\ result.total_economic_impact >= 0
        /\ \A p \in Listed(prev) :
              (p.args.delay = args.delay /\ TotalFlights(p.result) <= TotalFlights(result)) =>
                  /\ p.result.estimated_passenger_cost <= result.estimated_passenger_cost
                  /\ p.result.estimated_airline_cost <= result.estimated_airline_cost
                  /\ p.result.total_economic_impact <= result.total_economic_impact

\* two calls with one delay, the second with more flights and a
\* higher cost
C16_Witness ==
    /\ pc = "done"
    /\ prev # << >>
    /\ prev[1].args.delay = args.delay
    /\ TotalFlights(prev[1].result) > 0
    /\ TotalFlights(prev[1].result) < TotalFlights(result)
    /\ prev[1].result.estimated_passenger_cost < result.estimated_passenger_cost
    /\ prev[1].result.estimated_airline_cost < result.estimated_airline_cost

\* C17: every affected flight is costed at the trigger delay of the call:
\* two calls with one trigger delay that count the same direct and the
\* same cascade flights return the same passengers and the same three
\* costs, whatever delays the records counted carry.
MeasuredDelays(tbl, airport, date) ==
    { r.arrdelayminutes : r \in PositiveArrivals(tbl, airport, date) }

ArrivalsMatching(tbl, o, a) ==
    LET is == { i \in ClaimArrivals(tbl, a) : ClaimPair(i, o, a) }
    IN  SumOver(is, [i \in is |-> Copies(tbl, i)])

DeparturesMatching(tbl, i, a) ==
    LET os == { o \in ClaimDepartures(tbl, a) : ClaimPair(i, o, a) }
    IN  SumOver(os, [o \in os |-> Copies(tbl, o)])

OpenDepartures(tbl, a) ==
    LET os == { o \in ClaimDepartures(tbl, a) : o.cancelled = 0 }
    IN  SumOver(os, [o \in os |-> Copies(tbl, o)])

C19_ToolPassesResultVerbatim ==
    response # NoResponse =>
        \A p \in Listed(prev) :
            /\ response.airport = p.result.origin_airport
            /\ response.trigger_delay_minutes = p.result.trigger_delay_minutes
            /\ response.analysis_date = p.args.date
            /\ response.impact.directly_affected_flights =
                   p.result.directly_affected_flights
            /\ response.impact.cascade_affected_flights =
                   p.result.cascade_affected_flights
            /\ response.impact.total_flights_affected =
                   p.result.directly_affected_flights + p.result.cascade_affected_flights
            /\ response.impact.total_passengers_impacted =
                   p.result.total_affected_passengers
            /\ response.economic_cost.passenger_delay_cost_usd =
                   p.result.estimated_passenger_cost
            /\ response.economic_cost.airline_operations_cost_usd =
                   p.result.estimated_airline_cost
            /\ response.economic_cost.total_economic_impact_usd =
                   p.result.total_economic_impact
            /\ response.cascade_destinations = p.result.affected_destinations

\* C20: the conversion maps the clock time h:m, written as the integer
\* 100 * h + m (h below 24, m below 60), to 60 * h + m minutes; the
\* result is between 0 and 1439, and an earlier clock time always gives
\* fewer minutes.
ClockTime(v) == v \in 0..2359 /\ v % 100 < 60

C20_ConversionKeepsOrder ==
    (clock.minutes # Null /\ ClockTime(clock.hhmm)) =>
        /\ \E h \in 0..23, m \in 0..59 :
              clock.hhmm = 100 * h + m /\ clock.minutes = 60 * h + m
        /\ clock.minutes \in 0..1439
        /\ \A w \in 0..MaxClock :
              (ClockTime(w) /\ w < clock.hhmm) =>
                  hhmm_to_minutes(w) < clock.minutes

\* 14:30 converted: 870 minutes
C20_Witness ==
    /\ clock.hhmm = 1430
    /\ clock.minutes = 870

\* C21: a turnaround that spans midnight is not seen: an arrival and a
\* departure whose scheduled time of day is not later than that of the
\* arrival are never matched, even when the departure follows the arrival
\* within the window on the clock; the count and the destinations come
\* from the pairs with the later departure time alone.
ClockGap(i, o) ==
    (hhmm_to_minutes(o.crsdeptime) - hhmm_to_minutes(i.crsarrtime)) % 1440

\* a pair that qualifies when the gap is taken round the clock
ClockPair(i, o, a) ==
    /\ ~MissingField(i, a)
    /\ ~MissingField(o, a)
    /\ o.cancelled = 0
    /\ i.airline = o.airline
    /\ ClockGap(i, o) >= 20
    /\ 10 * ClockGap(i, o) <= 10 * a.turnaround + a.delay
    /\ i.arrdelayminutes > ClockGap(i, o)

SameDayPairs(tbl, a) ==
    { p \in ClaimArrivals(tbl, a) \X ClaimDepartures(tbl, a) :
        ClockPair(p[1], p[2], a) /\ p[2].crsdeptime > p[1].crsarrtime }

C21_NoMatchAcrossMidnight ==
    pc = "done" =>
        \A counts \in { DestCountsOf(read2, ps) :
                            ps \in { { p : p \in SameDayPairs(read2, args) } } } :
            /\ result.cascade_affected_flights =
                   SumOver(counts, [t \in counts |-> t[2]])
            /\ \A d \in Listed(result.affected_destinations) :
                   \E t \in counts : t[1] = d

\* a result with matches, read from a table with a late arrival at 23:50
\* and a departure of its airline at 00:30
C21_Witness ==
    /\ pc = "done"
    /\ result.cascade_affected_flights > 0
    /\ \E i \in ClaimArrivals(read2, args), o \in ClaimDepartures(read2, args) :
          /\ ClockPair(i, o, args)
          /\ i.crsarrtime = 2350
          /\ o.crsdeptime = 30

\* C22 as stated: for every top_n the two ranking tools return at most
\* min(max(1, top_n), 50) entries, never more than 50, and at least one
\* when the table is not empty.
C22_AtLeastOneOfNonEmptyTable ==
    rank.pc = "done" =>
        /\ Len(rank.entries) <= Min(Max(1, rank.top_n), 50)
        /\ Len(rank.entries) <= 50
        /\ Len(rank.table) > 0 => Len(rank.entries) >= 1

\* C22: for every top_n the two ranking tools return at most
\* min(max(1, top_n), 50) entries, never more than 50, and at least one
\* when the table has a row that meets the filter on the delay cause.
RowsMeetingFilter(r) ==
    { i \in 1..Len(r.table) : r.delay_cause = "" \/ r.table[i] = r.delay_cause }

C22_AtLeastOneOfFilteredRows ==
    rank.pc = "done" =>
        /\ Len(rank.entries) <= Min(Max(1, rank.top_n), 50)
        /\ Len(rank.entries) <= 50
        /\ RowsMeetingFilter(rank) # {} => Len(rank.entries) >= 1
        /\ \A k \in 1..Len(rank.entries) : rank.entries[k] \in RowsMeetingFilter(rank)

\* 1000 routes of one cause asked of a table with more than 50 of them:
\* 50 returned
C22_Witness ==
    /\ rank.pc = "done"
    /\ rank.name = "get_costliest_routes"
    /\ rank.delay_cause # ""
    /\ rank.top_n > 50
    /\ Cardinality(RowsMeetingFilter(rank)) > 50
    /\ Len(rank.entries) = 50


\* how many times a node has run
Runs(node) ==
    Cardinality({ i \in 1..Len(agent.trace) : agent.trace[i].node = node })

NodeAt(i) ==
    IF i <= Len(agent.trace) THEN agent.trace[i].node
    ELSE IF i = Len(agent.trace) + 1 THEN agent.pc
    ELSE ""

\* C24: every auto_remediate comes right after a diagnose_with_llm and is
\* followed by a new check_pipeline_health and detect_issues before any
\* report; a detect_issues that finds no issue is followed by
\* generate_report, with no diagnosis and no remediation.
C24_NodeOrder ==
    \A i \in 1..Len(agent.trace) :
        /\ agent.trace[i].node = "remediate" =>
              /\ i > 1
              /\ agent.trace[i - 1].node = "diagnose"
              /\ NodeAt(i + 1) = "check_health"
              /\ NodeAt(i + 2) \in { "detect_issues", "" }
        /\ agent.trace[i].node = "diagnose" => NodeAt(i + 1) = "remediate"
        /\ (agent.trace[i].node = "detect_issues" /\ ~agent.trace[i].found) =>
              /\ NodeAt(i + 1) = "generate_report"
              /\ NodeAt(i + 2) \in { "END", "" }

\* a run with a remediation that worked: the check after it finds nothing
\* and the report follows
C24_Witness ==
    /\ agent.pc = "END"
    /\ \E i \in 1..Len(agent.trace) :
          /\ agent.trace[i].node = "remediate"
          /\ agent.trace[i + 2].node = "detect_issues"
          /\ ~agent.trace[i + 2].found
          /\ i + 3 = Len(agent.trace)

Severity(status) ==
    CASE status = "healthy" -> 0
      [] status = "warning" -> 1
      [] status = "stale" -> 2
      [] status = "critical" -> 3

\* C28: within one pass of check_pipeline_health the status of a table is
\* never lowered: no assignment replaces a status by a less severe one.
C28_StatusNeverDowngraded ==
    \A t \in DOMAIN agent.assigned :
        \A i \in 1..(Len(agent.assigned[t]) - 1) :
            Severity(agent.assigned[t][i]) <= Severity(agent.assigned[t][i + 1])

\* the run has found an issue
IssueFound ==
    \E i \in 1..Len(agent.trace) :
        agent.trace[i].node = "detect_issues" /\ agent.trace[i].found

\* C29: at the end of a run the placeholder 'No remediation needed' is in
\* actions_taken only if no issue was detected, and if an issue was
\* detected actions_taken holds at least one action that was run or logged.
C29_PlaceholderOnlyWhenHealthy ==
    agent.pc = "END" =>
        /\ (\E k \in 1..Len(agent.actions_taken) :
                agent.actions_taken[k] = Placeholder) => ~IssueFound
        /\ IssueFound =>
              \E k \in 1..Len(agent.actions_taken) :
                  agent.actions_taken[k].status # "skipped"


\* the rows of the successful polls among the first n, in poll order
RECURSIVE RowsOfSuccessfulPolls(_, _)
RowsOfSuccessfulPolls(polled, n) ==
    IF n = 0 THEN << >>
    ELSE RowsOfSuccessfulPolls(polled, n - 1)
             \o (IF polled[n].status = "ok" THEN polled[n].rows ELSE << >>)

\* the polls whose saving is over
Saved == IF feed.pc = "save" THEN feed.polls - 1 ELSE feed.polls

\* C25 as stated: in the polling loop of every producer a failed request
\* gives an empty list, nothing is inserted for it and the loop goes on;
\* the raw table holds exactly the rows of the successful polls, in poll
\* order.
C25_TableHoldsSuccessfulPolls ==
    /\ \A n \in 1..Len(feed.polled) :
          feed.polled[n].status # "ok" => feed.polled[n].rows = << >>
    /\ feed.table = RowsOfSuccessfulPolls(feed.polled, Saved)
    /\ feed.pc \in { "idle", "fetch", "save", "sleep" }

\* C25: the same, for a producer that writes to DuckDB; opensky_producer
\* started with --json-only never touches the raw table.
C25_TableHoldsSuccessfulPollsUnlessJsonOnly ==
    /\ \A n \in 1..Len(feed.polled) :
          feed.polled[n].status # "ok" => feed.polled[n].rows = << >>
    /\ ~feed.json_only => feed.table = RowsOfSuccessfulPolls(feed.polled, Saved)
    /\ feed.json_only => feed.table = << >>
    /\ feed.pc \in { "idle", "fetch", "save", "sleep" }

\* a good poll, a failed one and a good one again:
\* the table holds the rows of the first and of the third
C25_Witness ==
    /\ feed.polls = 3
    /\ feed.pc = "sleep"
    /\ ~feed.json_only
    /\ feed.polled[1].status = "ok"
    /\ feed.polled[2].status = "timeout"
    /\ feed.polled[3].status = "ok"
    /\ feed.polled[1].rows # << >>
    /\ feed.polled[3].rows # << >>
    /\ feed.table = feed.polled[1].rows \o feed.polled[3].rows


\* the matches of the query with the inbound filter of the specification,
\* a non-null arrival delay > 0, in the place of arrdelayminutes >= 15
SpecifiedMatches(tbl, a) ==
    { p \in outbound_flights(tbl, a.airport, a.date)
              \X PositiveArrivals(tbl, a.airport, a.date) :
        /\ p[1].airline = p[2].airline
        /\ MatchWhere(p[1], p[2], a.delay, a.turnaround) }

\* C26: the query with the inbound filter 'arrival delay >= 15' and the
\* query with the filter 'non-null arrival delay > 0' have the same
\* matches, hence the same cascade_affected_flights and destinations.
C26_SameMatchesAsPositiveDelay ==
    pc = "done" =>
        \A m \in { { p : p \in SpecifiedMatches(read2, args) } } :
            /\ m = cascade_matches(read2, args)
            /\ result.cascade_affected_flights
                   = SumOver(m, [p \in m |-> PairCopies(read2, p)])
            /\ Listed(result.affected_destinations) \subseteq { p[1].dest : p \in m }
            /\ Cardinality({ p[1].dest : p \in m }) <= MaxDestinations
                   => Listed(result.affected_destinations) = { p[1].dest : p \in m }

\* matches read from a table that also holds an arrival less than 15
\* minutes late of an airline with departures from the airport
C26_Witness ==
    /\ pc = "done"
    /\ result.cascade_affected_flights > 0
    /\ \E i \in PositiveArrivals(read2, args.airport, args.date) :
          /\ i.arrdelayminutes < LateArrivalMinutes
          /\ i.crsarrtime # Null
          /\ \E o \in outbound_flights(read2, args.airport, args.date) :
                /\ o.airline = i.airline
                /\ hhmm_to_minutes(o.crsdeptime) > hhmm_to_minutes(i.crsarrtime)


Distance(x, y) == IF x >= y THEN x - y ELSE y - x

\* the whole cents in x tenths of a minute at rate cents a minute,
\* x * rate / 10 rounded down
WholeCents(x, rate) == x * (rate \div 10) + (x * (rate % 10)) \div 10

\* C27: cutting the destination list to 20 entries changes no count and
\* no cost: cascade_affected_flights is the sum of the match counts of all
\* destinations, listed or not, so at least the sum over the listed ones,
\* and passengers and costs are those of the direct count plus that sum.
C27_TruncationKeepsCounts ==
    pc = "done" =>
        \A counts \in { ClaimDestCounts(read2, args) } :
            LET all == SumOver(counts, [t \in counts |-> t[2]])
                listed == { t \in counts : t[1] \in Listed(result.affected_destinations) }
                total == result.directly_affected_flights + all
                pax == (total * 160 * 87) \div 100
            IN  /\ result.cascade_affected_flights = all
                /\ result.cascade_affected_flights
                       >= SumOver(listed, [t \in listed |-> t[2]])
                /\ result.total_affected_passengers = pax
                /\ Distance(result.estimated_passenger_cost,
                            WholeCents(pax * args.delay, 74)) <= 1
                /\ Distance(result.estimated_airline_cost,
                            WholeCents(total * args.delay, 6848)) <= 1

\* a result whose list was cut: more than 20 destinations have matches
\* and the count is above the sum over the 20 listed
C27_Witness ==
    /\ pc = "done"
    /\ Len(result.affected_destinations) = 20
    /\ \E counts \in { ClaimDestCounts(read2, args) } :
          LET listed == { t \in counts : t[1] \in Listed(result.affected_destinations) }
          IN  /\ Cardinality(counts) > 20
              /\ result.cascade_affected_flights
                     > SumOver(listed, [t \in listed |-> t[2]])


\* C30: every call of a tool closes the read-only connection it opened,
\* on every path: between calls no connection is open, and no finished
\* call, a call that raised included, has left its connection open.
C30_EveryCallClosesItsConnection ==
    /\ tool.pc = "idle" => ~conns.open
    /\ conns.left # "open"

====
